---- MODULE Spec2Model ----
(***************************************************************************)
(* A model of the sample applications of the NestJS guides:                *)
(*   - the in-memory items CRUD application (Nest-CRUD.md),                *)
(*   - the DTO validation guide's users endpoint behind the global         *)
(*     ValidationPipe,                                                     *)
(*   - the JWT guide's user store and AuthService.                         *)
(* Each application has its own specification over the shared variables.   *)
(***************************************************************************)
EXTENDS Integers, Sequences, FiniteSets, TLC

VARIABLES
    items,      \* ItemsService.items: the in-memory array of stored items
    pre,        \* history: items as it was when the latest request arrived
    request,    \* the latest HTTP request of the items application
    last,       \* the ItemsService call the latest request made, with its result
    response,   \* the HTTP response to the latest request of the items application
    assigned,   \* history: the identifiers create has assigned so far
    userReq,    \* DTO guide: body of the latest POST /users
    userResp,   \* DTO guide: response to the latest POST /users
    handled,    \* DTO guide: what UsersController.create received (NotInvoked if not reached)
    users,      \* JWT guide: the users collection, in insertion order
    authLast,   \* JWT guide: the latest request of the auth application and its outcome
    creds,      \* history: the raw password each stored username was registered with
    now,        \* JWT guide: the server's clock, in seconds
    held,       \* JWT guide: the access token the client received last (NoToken if none)
    calls,      \* items application, step by step: the call of each request in flight
    running,    \* items application, step by step: the request whose callback the event loop runs
    editingId,  \* books page: the script's editingId
    titleInput, \* books page: the value of the form's inputs (title stands for all three)
    inflight,   \* books page: the fetch calls awaited and not yet settled
    listed,     \* books page: the books whose Edit and Delete buttons are rendered
    books,      \* books server: identifiers of the stored books
    minted,     \* books server: how many identifiers it has given out
    lastAction, \* books page: the user's most recent action on the form
    sent        \* books page: the request the last submit issued

vars == <<items, pre, request, last, response, assigned, userReq, userResp, handled, users, authLast,
          creds, now, held, calls, running,
          editingId, titleInput, inflight, listed, books, minted, lastAction, sent>>

itemVars == <<items, pre, request, last, response, assigned>>
gateVars == <<userReq, userResp, handled>>
authVars == <<users, authLast, creds, now, held>>
raceVars == <<calls, running>>
browserVars == <<editingId, titleInput, inflight, listed, books, minted, lastAction, sent>>

(***************************************************************************)
(* Bounds of the model.                                                    *)
(***************************************************************************)
\* The items array never grows beyond this many entities.
MaxItems == 2

\* The clock advances at most this many half hours.
MaxTicks == 3
MaxInflight == 2
MaxBooks == 2

(***************************************************************************)
(* JSON values.  A string is its sequence of characters, so that emptiness,*)
(* length and e-mail format are computed; a number that appears where a    *)
(* string is expected keeps its digits.  An absent field is a field that   *)
(* is not in the record's DOMAIN.  The id field of an item is an integer.  *)
(***************************************************************************)
Str(s) == [type |-> "string", text |-> s]
NumLit(s) == [type |-> "number", text |-> s]

\* JavaScript's undefined and null, as the service returns them.
Undefined == [jsvalue |-> "undefined"]
Null == [jsvalue |-> "null"]

\* The empty object {}.
EmptyObject == <<>>

\* Number(id) of a non-numeric route parameter.  No entity identifier is
\* negative in the model, and StrictEquals never lets NaN equal anything.
NaN == -1

StrictEquals(a, b) == a # NaN /\ b # NaN /\ a = b

Digits == <<"0", "1", "2", "3", "4", "5", "6", "7", "8", "9">>
IsDigit(c) == \E d \in 1..Len(Digits) : Digits[d] = c
DigitValue(c) == (CHOOSE d \in 1..Len(Digits) : Digits[d] = c) - 1

RECURSIVE Decimal(_)
Decimal(s) == IF Len(s) = 0 THEN 0
              ELSE Decimal(SubSeq(s, 1, Len(s) - 1)) * Len(Digits) + DigitValue(s[Len(s)])

\* Number(id) in the controller: the empty string is 0, a digit string its
\* decimal value, anything else NaN.
Number(s) == IF Len(s) = 0 THEN 0
             ELSE IF \A i \in 1..Len(s) : IsDigit(s[i]) THEN Decimal(s)
             ELSE NaN

(***************************************************************************)
(* ItemsService                                                            *)
(***************************************************************************)
\* { ...a, ...b }: the fields of b over the fields of a.
Spread(a, b) == [f \in DOMAIN a \cup DOMAIN b |-> IF f \in DOMAIN b THEN b[f] ELSE a[f]]

\* item.id = v, on the object passed in.
SetId(item, v) == [f \in DOMAIN item \cup {"id"} |-> IF f = "id" THEN v ELSE item[f]]

\* Alternative identifier scheme: one more than the largest identifier in use.
createMaxPlusOne(its, item) ==
    LET ids == {its[i].id : i \in 1..Len(its)}
        top == IF ids = {} THEN 0 ELSE CHOOSE m \in ids : \A k \in ids : k <= m
        stored == SetId(item, top + 1)
    IN [items |-> Append(its, stored), ret |-> stored]

\* Alternative: the new entity is put first instead of last.
createPrepend(its, item) ==
    LET stored == SetId(item, Len(its) + 1)
    IN [items |-> <<stored>> \o its, ret |-> stored]

create(its, item) ==
    LET stored == SetId(item, Len(its) + 1)
    IN [items |-> Append(its, stored), ret |-> stored]

findAll(its) == its

\* Array.prototype.findIndex, 1-based; 0 where JavaScript gives -1.
findIndex(its, id) ==
    LET hits == {i \in 1..Len(its) : StrictEquals(its[i].id, id)}
    IN IF hits = {} THEN 0 ELSE CHOOSE i \in hits : \A j \in hits : i <= j

\* Alternative: a missing identifier falls back to the first entity.
findOneOrFirst(its, id) ==
    LET i == findIndex(its, id)
    IN IF i # 0 THEN its[i] ELSE IF Len(its) > 0 THEN its[1] ELSE Undefined

findOne(its, id) ==
    LET i == findIndex(its, id)
    IN IF i = 0 THEN Undefined ELSE its[i]

\* Alternative: the stored entity is replaced by the partial record alone.
updateReplace(its, id, updatedItem) ==
    LET itemIndex == findIndex(its, id)
    IN IF itemIndex = 0 THEN [items |-> its, ret |-> Null]
       ELSE [items |-> [its EXCEPT ![itemIndex] = SetId(updatedItem, its[itemIndex].id)],
             ret |-> SetId(updatedItem, its[itemIndex].id)]

update(its, id, updatedItem) ==
    LET itemIndex == findIndex(its, id)
    IN IF itemIndex = 0 THEN [items |-> its, ret |-> Null]
       ELSE LET merged == Spread(its[itemIndex], updatedItem)
            IN [items |-> [its EXCEPT ![itemIndex] = merged], ret |-> merged]

\* Alternative: only the first matching entity is removed.
removeFirstOnly(its, id) ==
    LET i == findIndex(its, id)
    IN IF i = 0 THEN [items |-> its, ret |-> FALSE]
       ELSE [items |-> SubSeq(its, 1, i - 1) \o SubSeq(its, i + 1, Len(its)), ret |-> TRUE]

remove(its, id) ==
    LET initialLength == Len(its)
        kept == SelectSeq(its, LAMBDA item : ~StrictEquals(item.id, id))
    IN [items |-> kept, ret |-> Len(kept) < initialLength]

(***************************************************************************)
(* The validation gate: class-validator constraints declared on a DTO and  *)
(* Nest's ValidationPipe.  A DTO is the sequence of its constraints in the *)
(* order the class declares them.                                          *)
(***************************************************************************)
\* @MinLength(6) on CreateUserDto.password.
MinPasswordLength == 6

CreateUserDto ==
    << [property |-> "name", type |-> "isNotEmpty", arg |-> 0],
       [property |-> "email", type |-> "isEmail", arg |-> 0],
       [property |-> "password", type |-> "minLength", arg |-> MinPasswordLength] >>

CreateItemDto ==
    << [property |-> "name", type |-> "isNotEmpty", arg |-> 0],
       [property |-> "name", type |-> "isString", arg |-> 0],
       [property |-> "description", type |-> "isNotEmpty", arg |-> 0],
       [property |-> "description", type |-> "isString", arg |-> 0] >>

\* The properties that carry at least one decorator.
Declared(dto) == {dto[i].property : i \in 1..Len(dto)}

\* local@domain with a dot in the domain, a top-level label of two or more
\* characters, and no empty label.
EmailFormat(t) ==
    \E at \in 2..(Len(t) - 1) :
        /\ t[at] = "@"
        /\ \A k \in 1..Len(t) : t[k] = "@" => k = at
        /\ t[at + 1] # "."
        /\ \E dot \in (at + 2)..(Len(t) - 2) :
              /\ t[dot] = "."
              /\ \A k \in (dot + 1)..Len(t) : t[k] # "."
        /\ \A k \in (at + 1)..(Len(t) - 1) : ~(t[k] = "." /\ t[k + 1] = ".")

\* Whether the record satisfies one constraint.  A missing property is
\* undefined, which no constraint of these four accepts.
Satisfies(c, rec) ==
    /\ c.property \in DOMAIN rec
    /\ LET v == rec[c.property]
       IN CASE c.type = "isNotEmpty" -> ~(v.type = "string" /\ v.text = <<>>)
            [] c.type = "isString" -> v.type = "string"
            [] c.type = "isEmail" -> v.type = "string" /\ EmailFormat(v.text)
            [] c.type = "minLength" -> v.type = "string" /\ Len(v.text) >= c.arg

\* class-validator's default message of a constraint.
DefaultMessage(c) ==
    CASE c.type = "isNotEmpty" -> [property |-> c.property, text |-> "should not be empty", arg |-> 0]
      [] c.type = "isString" -> [property |-> c.property, text |-> "must be a string", arg |-> 0]
      [] c.type = "isEmail" -> [property |-> c.property, text |-> "must be an email", arg |-> 0]
      [] c.type = "minLength" ->
            [property |-> c.property, text |-> "must be longer than or equal to $1 characters",
             arg |-> c.arg]

\* "property <p> should not exist".
WhitelistMessage(p) == [property |-> p, text |-> "should not exist", arg |-> 0]

\* The properties of a set, one after the other.  Bodies in this model carry
\* at most one undeclared property, so their order among themselves (the
\* order of the keys in the body) does not arise.
RECURSIVE SeqOfSet(_)
SeqOfSet(S) == IF S = {} THEN <<>>
               ELSE LET p == CHOOSE q \in S : TRUE IN <<p>> \o SeqOfSet(S \ {p})

\* Alternative: validation stops at the first failing constraint.
ConstraintErrorsStopAtFirst(dto, rec) ==
    LET failing == SelectSeq(dto, LAMBDA c : ~Satisfies(c, rec))
    IN IF failing = <<>> THEN <<>> ELSE <<DefaultMessage(failing[1])>>

\* One message per failing constraint, in the order of the DTO.
ConstraintErrors(dto, rec) ==
    LET failing == SelectSeq(dto, LAMBDA c : ~Satisfies(c, rec))
    IN [i \in 1..Len(failing) |-> DefaultMessage(failing[i])]

\* Alternative configuration: undeclared properties are stripped silently.
WhitelistOnlyOptions == [whitelist |-> TRUE, forbidNonWhitelisted |-> FALSE]

\* new ValidationPipe({ whitelist: true, forbidNonWhitelisted: true })
GlobalPipeOptions == [whitelist |-> TRUE, forbidNonWhitelisted |-> TRUE]

\* ValidationPipe.transform on a request body: the violations of undeclared
\* properties first, then those of the declared constraints; a 400 if there
\* is any, else the body with the undeclared properties stripped.
ValidationPipe(options, dto, body) ==
    LET extraneous == DOMAIN body \ Declared(dto)
        whitelistErrors ==
            IF options.whitelist /\ options.forbidNonWhitelisted
            THEN LET ps == SeqOfSet(extraneous)
                 IN [i \in 1..Len(ps) |-> WhitelistMessage(ps[i])]
            ELSE <<>>
        errors == whitelistErrors \o ConstraintErrors(dto, body)
        kept == IF options.whitelist THEN DOMAIN body \cap Declared(dto) ELSE DOMAIN body
    IN IF errors # <<>>
       THEN [ok |-> FALSE,
             value |-> [statusCode |-> 400, message |-> errors, error |-> "Bad Request"]]
       ELSE [ok |-> TRUE, value |-> [f \in kept |-> body[f]]]

\* The pipes the items application registers: none.  items.module.ts imports
\* ValidationPipe and does not use it, and the guide has no useGlobalPipes
\* and no @UsePipes.
ItemsAppPipes == <<>>

\* The pipes of the DTO guide's main.ts.
UsersAppPipes == <<GlobalPipeOptions>>

\* What @Body() delivers: the body as received when no pipe is registered.
RunPipes(pipes, dto, body) ==
    IF pipes = <<>> THEN [ok |-> TRUE, value |-> body]
    ELSE ValidationPipe(pipes[1], dto, body)

(***************************************************************************)
(* Inputs of the items application.                                        *)
(***************************************************************************)
NameA == Str(<<"A">>)
NameB == Str(<<"B">>)
DescX == Str(<<"x">>)
DescY == Str(<<"y">>)

\* Bodies of POST /api/add-item: well-formed ones, one carrying its own id,
\* one without a name, one with an empty name.
ItemBodies ==
    { [name |-> NameA, description |-> DescX],
      [name |-> NameB, description |-> DescY],
      [id |-> 1, name |-> NameB, description |-> DescX],
      [description |-> DescX],
      [name |-> Str(<<>>), description |-> DescY] }

\* Bodies of PUT /api/update-item/:id.
PartialBodies ==
    { EmptyObject,
      [name |-> NameB],
      [description |-> DescY],
      [name |-> NameA, description |-> DescX],
      [id |-> 2] }

\* The :id route parameter as the router hands it over: a string.
IdParams == { <<"1">>, <<"2">>, <<"3">>, <<"x">> }

NoCall == [op |-> "none", id |-> 0, arg |-> EmptyObject, ret |-> Undefined, reused |-> FALSE]
NoRequest == [route |-> "none", param |-> <<>>, body |-> EmptyObject]
NoResponse == [status |-> 0, body |-> Undefined]

(***************************************************************************)
(* ItemsController: each action is one request, from the route to the      *)
(* response.  The items application registers no pipe, so @Body() is       *)
(* handed to the controller as it was received.                            *)
(***************************************************************************)
PostAddItem(body) ==
    /\ Len(items) < MaxItems
    /\ LET piped == RunPipes(ItemsAppPipes, CreateItemDto, body)
       IN IF piped.ok
          THEN LET r == create(items, piped.value)
               IN /\ items' = r.items
                  /\ last' = [op |-> "create", id |-> r.ret.id, arg |-> piped.value,
                              ret |-> r.ret, reused |-> r.ret.id \in assigned]
                  /\ response' = [status |-> 201, body |-> r.ret]
                  /\ assigned' = assigned \cup {r.ret.id}
          ELSE /\ items' = items
               /\ last' = NoCall
               /\ response' = [status |-> 400, body |-> piped.value]
               /\ assigned' = assigned
    /\ pre' = items
    /\ request' = [route |-> "POST /api/add-item", param |-> <<>>, body |-> body]
    /\ UNCHANGED <<gateVars, authVars, raceVars, browserVars>>

GetAll ==
    /\ items' = items
    /\ pre' = items
    /\ last' = [op |-> "findAll", id |-> 0, arg |-> EmptyObject, ret |-> findAll(items), reused |-> FALSE]
    /\ response' = [status |-> 200, body |-> findAll(items)]
    /\ request' = [route |-> "GET /api/all", param |-> <<>>, body |-> EmptyObject]
    /\ UNCHANGED <<assigned, gateVars, authVars, raceVars, browserVars>>

GetItem(param) ==
    /\ LET id == Number(param)
           r == findOne(items, id)
       IN /\ last' = [op |-> "findOne", id |-> id, arg |-> EmptyObject, ret |-> r, reused |-> FALSE]
          /\ response' = [status |-> 200, body |-> r]
    /\ items' = items
    /\ pre' = items
    /\ request' = [route |-> "GET /api/get-item/:id", param |-> param, body |-> EmptyObject]
    /\ UNCHANGED <<assigned, gateVars, authVars, raceVars, browserVars>>

PutUpdateItem(param, body) ==
    /\ LET id == Number(param)
           r == update(items, id, body)
       IN /\ items' = r.items
          /\ last' = [op |-> "update", id |-> id, arg |-> body, ret |-> r.ret, reused |-> FALSE]
          /\ response' = [status |-> 200, body |-> r.ret]
    /\ pre' = items
    /\ request' = [route |-> "PUT /api/update-item/:id", param |-> param, body |-> body]
    /\ UNCHANGED <<assigned, gateVars, authVars, raceVars, browserVars>>

DeleteItem(param) ==
    /\ LET id == Number(param)
           r == remove(items, id)
       IN /\ items' = r.items
          /\ last' = [op |-> "remove", id |-> id, arg |-> EmptyObject, ret |-> r.ret, reused |-> FALSE]
          /\ response' = [status |-> 200, body |-> r.ret]
    /\ pre' = items
    /\ request' = [route |-> "DELETE /api/delete-item/:id", param |-> param, body |-> EmptyObject]
    /\ UNCHANGED <<assigned, gateVars, authVars, raceVars, browserVars>>

(***************************************************************************)
(* The DTO guide's application: POST /users behind the global pipe.        *)
(***************************************************************************)
\* A record with the one field f, for each value of V, and the empty record.
Opt(f, V) == {EmptyObject} \cup {[x \in {f} |-> v] : v \in V}

NameValues == { Str(<<>>), Str(<<"r", "a", "m">>), NumLit(<<"5">>) }
EmailValues ==
    { Str(<<>>), Str(<<"r", "a", "m">>), Str(<<"r", "@", "x", ".", "y">>),
      Str(<<"r", "@", "x", ".", "i", "o">>) }
PasswordValues ==
    { Str(<<"1", "2", "3">>), Str(<<"1", "2", "3", "4", "5">>),
      Str(<<"1", "2", "3", "4", "5", "6">>), NumLit(<<"1", "2", "3", "4", "5", "6">>) }
RoleValues == { Str(<<"a", "d", "m", "i", "n">>) }

\* Bodies of POST /users: each declared field absent or with one of its
\* values, with or without the undeclared field role.
UserBodies ==
    { Spread(Spread(Spread(n, e), pw), r) :
        n \in Opt("name", NameValues), e \in Opt("email", EmailValues),
        pw \in Opt("password", PasswordValues), r \in Opt("role", RoleValues) }

NotInvoked == [invoked |-> FALSE]

\* UsersController.create behind the pipe: the handler runs on what the
\* pipe returns, or the pipe's exception is the response.
PostUsers(body) ==
    /\ LET piped == RunPipes(UsersAppPipes, CreateUserDto, body)
       IN IF piped.ok
          THEN /\ handled' = [invoked |-> TRUE, dto |-> piped.value]
               /\ userResp' = [status |-> 201,
                               body |-> [text |-> "User created with name: ",
                                         name |-> IF "name" \in DOMAIN piped.value
                                                  THEN piped.value.name ELSE Undefined]]
          ELSE /\ handled' = NotInvoked
               /\ userResp' = [status |-> 400, body |-> piped.value]
    /\ userReq' = body
    /\ UNCHANGED <<itemVars, authVars, raceVars, browserVars>>

(***************************************************************************)
(* The JWT guide's application: the users collection and AuthService.      *)
(***************************************************************************)
\* bcrypt.hash(password, 10)
SaltRounds == 10

Usernames == {"ram", "sita", "hari"}
Passwords == {"1234", "abcd"}
\* The salts bcrypt may draw.
Salts == {"salt1", "salt2"}

\* bcrypt.hash with the salt it drew: the cost, the salt, and a digest that
\* is determined by the salt and the password and is neither of them.
bcryptHash(password, rounds, salt) ==
    [version |-> "2a", cost |-> rounds, salt |-> salt, digest |-> <<"digest", salt, password>>]

\* Alternative: the collection has no unique index on username.
UsersService_createNoIndex(store, user) ==
    LET doc == [_id |-> Len(store) + 1, username |-> user.username,
                password |-> user.password, __v |-> 0]
    IN [ok |-> TRUE, users |-> Append(store, doc), value |-> doc]

\* new this.userModel(user).save() on a collection whose username has a
\* unique index: the insert of a second document with a username that is
\* stored fails with a duplicate key error and stores nothing.
UsersService_create(store, user) ==
    IF \E i \in 1..Len(store) : store[i].username = user.username
    THEN [ok |-> FALSE, users |-> store,
          value |-> [name |-> "MongoServerError", code |-> 11000]]
    ELSE LET doc == [_id |-> Len(store) + 1, username |-> user.username,
                     password |-> user.password, __v |-> 0]
         IN [ok |-> TRUE, users |-> Append(store, doc), value |-> doc]

\* AuthService.register, with the salt bcrypt drew.
register(store, username, password, salt) ==
    LET hashed == bcryptHash(password, SaltRounds, salt)
    IN UsersService_create(store, [username |-> username, password |-> hashed])

\* Alternative: every password matches every hash.
bcryptCompareAlways(password, hash) == TRUE

\* bcrypt.compare: the password, hashed with the salt and the cost the hash
\* carries, gives the hash.
bcryptCompare(password, hash) == bcryptHash(password, hash.cost, hash.salt) = hash

\* UsersService.findByUsername: the first document with the username, or null.
findByUsername(store, username) ==
    LET hits == {i \in 1..Len(store) : store[i].username = username}
    IN IF hits = {} THEN Null ELSE store[CHOOSE i \in hits : \A j \in hits : i <= j]

\* const { password, ...result } = user.toObject()
WithoutPassword(doc) == [f \in DOMAIN doc \ {"password"} |-> doc[f]]

\* AuthService.validateUser
validateUser(store, username, password) ==
    LET user == findByUsername(store, username)
    IN IF user # Null /\ bcryptCompare(password, user.password)
       THEN WithoutPassword(user)
       ELSE Null

\* JwtModule.register({ secret: 'jwt_secret', ... }) and the JwtStrategy's
\* secretOrKey.
SignSecret == "jwt_secret"
VerifySecret == "jwt_secret"

\* signOptions: { expiresIn: '1h' }, in seconds.
ExpiresIn == 3600

\* The HS256 signature of a payload under a key: determined by both.
Hmac(secret, payload) == <<"HS256", secret, payload>>

\* JwtService.sign: the payload with iat and exp, and its signature.
jwtSign(payload, secret, clock) ==
    LET claims == Spread(payload, [iat |-> clock, exp |-> clock + ExpiresIn])
    IN [malformed |-> FALSE, payload |-> claims, signature |-> Hmac(secret, claims)]

\* AuthService.login
login(user, clock) ==
    LET payload == [username |-> user.username, sub |-> user._id]
    IN [access_token |-> jwtSign(payload, SignSecret, clock)]

NoToken == [malformed |-> TRUE, payload |-> EmptyObject, signature |-> <<"none">>]
InvalidCredentials == [message |-> "Invalid credentials"]

\* POST /auth/register: AuthController.register returns what the service
\* returns; an exception of the service is a 500.
Register(username, password, salt) ==
    /\ LET r == register(users, username, password, salt)
       IN /\ users' = r.users
          /\ authLast' = [op |-> "register", username |-> username, password |-> password,
                          ok |-> r.ok, value |-> r.value,
                          status |-> IF r.ok THEN 201 ELSE 500, before |-> users]
          /\ creds' = IF r.ok THEN creds \cup {<<username, password>>} ELSE creds
    /\ UNCHANGED <<now, held>>
    /\ UNCHANGED <<itemVars, gateVars, raceVars, browserVars>>

\* Alternative: an unknown username is answered differently from a wrong
\* password.
AuthController_loginLeaky(store, username, password, clock) ==
    LET user == validateUser(store, username, password)
    IN [user |-> user,
        body |-> IF user # Null THEN login(user, clock)
                 ELSE IF findByUsername(store, username) = Null
                      THEN [message |-> "User not found"]
                      ELSE InvalidCredentials]

\* AuthController.login: the user validateUser returned and the response body.
AuthController_login(store, username, password, clock) ==
    LET user == validateUser(store, username, password)
    IN [user |-> user,
        body |-> IF user = Null THEN InvalidCredentials ELSE login(user, clock)]

\* POST /auth/login.  The client keeps the token of a successful login.
Login(username, password) ==
    /\ LET r == AuthController_login(users, username, password, now)
       IN /\ authLast' = [op |-> "login", username |-> username, password |-> password,
                          ok |-> r.user # Null, validated |-> r.user, value |-> r.body,
                          status |-> 201, before |-> users, at |-> now]
          /\ held' = IF "access_token" \in DOMAIN r.body THEN r.body.access_token ELSE held
    /\ UNCHANGED <<users, creds, now>>
    /\ UNCHANGED <<itemVars, gateVars, raceVars, browserVars>>

\* Alternative: the expiry of a token is not checked.
jwtVerifyIgnoreExpiration(token, secret, clock) ==
    IF token.malformed THEN [ok |-> FALSE, error |-> "jwt malformed"]
    ELSE IF token.signature # Hmac(secret, token.payload)
    THEN [ok |-> FALSE, error |-> "invalid signature"]
    ELSE [ok |-> TRUE, payload |-> token.payload]

\* Verification of a bearer token by passport-jwt: the token parses, its
\* signature is the one the key gives for its payload, and the clock has
\* not reached exp.
jwtVerify(token, secret, clock) ==
    IF token.malformed THEN [ok |-> FALSE, error |-> "jwt malformed"]
    ELSE IF token.signature # Hmac(secret, token.payload)
    THEN [ok |-> FALSE, error |-> "invalid signature"]
    ELSE IF clock >= token.payload.exp
    THEN [ok |-> FALSE, error |-> "jwt expired"]
    ELSE [ok |-> TRUE, payload |-> token.payload]

\* JwtStrategy.validate
JwtStrategy_validate(payload) == [userId |-> payload.sub, username |-> payload.username]

\* Alternative: the guard decodes the token and does not verify it.
JwtAuthGuardDecodeOnly(token, clock) ==
    IF token.malformed THEN [activate |-> FALSE, user |-> Undefined]
    ELSE [activate |-> TRUE, user |-> JwtStrategy_validate(token.payload)]

\* JwtAuthGuard: AuthGuard('jwt') lets the request pass with req.user set to
\* what the strategy returns for a verified token, and rejects it otherwise.
JwtAuthGuard(token, clock) ==
    LET v == jwtVerify(token, VerifySecret, clock)
    IN IF v.ok THEN [activate |-> TRUE, user |-> JwtStrategy_validate(v.payload)]
       ELSE [activate |-> FALSE, user |-> Undefined]

Unauthorized == [statusCode |-> 401, message |-> "Unauthorized"]

\* What a client may put in the Authorization header.
Garbage == [malformed |-> TRUE, payload |-> EmptyObject, signature |-> <<"garbage">>]
\* The token with its username claim changed and its signature kept.
Tampered(token) ==
    [token EXCEPT !.payload = Spread(token.payload, [username |-> "hari"])]
\* The changed token, signed again with a key that is not the server's.
Forged(token) ==
    [Tampered(token) EXCEPT !.signature = Hmac("attacker_secret", Tampered(token).payload)]

Presentable(token) == {NoToken, Garbage, token, Tampered(token), Forged(token)}

\* GET /auth/profile: the guard first, then AuthController.getProfile.
GetProfile(token) ==
    /\ LET g == JwtAuthGuard(token, now)
       IN authLast' = [op |-> "profile", token |-> token, at |-> now,
                       handlerInvoked |-> g.activate,
                       value |-> IF g.activate THEN g.user ELSE Unauthorized,
                       status |-> IF g.activate THEN 200 ELSE 401]
    /\ UNCHANGED <<users, creds, now, held>>
    /\ UNCHANGED <<itemVars, gateVars, raceVars, browserVars>>

\* Half an hour passes.
Tick ==
    /\ now + 1800 <= MaxTicks * 1800
    /\ now' = now + 1800
    /\ UNCHANGED <<users, authLast, creds, held>>
    /\ UNCHANGED <<itemVars, gateVars, raceVars, browserVars>>

(***************************************************************************)
(* ItemsService step by step.  Several requests are in flight at once; the *)
(* event loop runs the callback of one of them at a time, and a method of  *)
(* ItemsService, which has no await, returns before the next callback      *)
(* starts.  seen is what the call has read so far: the size for create,    *)
(* the index for update, the initial length for remove.                    *)
(***************************************************************************)
Requests == {"r1", "r2"}
NoneRunning == "none"

Idle == [op |-> "idle", pc |-> "idle", id |-> 0, arg |-> EmptyObject, seen |-> 0]

RaceBodies == { [name |-> NameA, description |-> DescX], [name |-> NameB, description |-> DescY] }
RacePartials == { [name |-> NameB] }
RaceIds == {1, 2}

\* Alternative: a callback may start while a method of another has not returned.
MayRunPreemptive(r) == TRUE

\* The event loop: the callback of r may take a step when no callback is
\* running or its own is.
MayRun(r) == running \in {NoneRunning, r}

\* A request arrives at the server and waits for the event loop.
Arrive(r, op, id, arg) ==
    /\ calls[r].pc = "idle"
    /\ calls' = [calls EXCEPT ![r] = [op |-> op, pc |-> "pending", id |-> id, arg |-> arg, seen |-> 0]]
    /\ UNCHANGED <<running, itemVars, gateVars, authVars, browserVars>>

\* create, first step: this.items.length is read for item.id.
CreateRead(r) ==
    /\ MayRun(r)
    /\ calls[r].op = "create" /\ calls[r].pc = "pending"
    /\ Len(items) < MaxItems
    /\ calls' = [calls EXCEPT ![r].pc = "sized", ![r].seen = Len(items)]
    /\ running' = r
    /\ UNCHANGED <<itemVars, gateVars, authVars, browserVars>>

\* create, second step: the item is pushed with the identifier computed.
CreatePush(r) ==
    /\ MayRun(r)
    /\ calls[r].op = "create" /\ calls[r].pc = "sized"
    /\ items' = Append(items, SetId(calls[r].arg, calls[r].seen + 1))
    /\ calls' = [calls EXCEPT ![r] = Idle]
    /\ running' = NoneRunning
    /\ UNCHANGED <<pre, request, last, response, assigned, gateVars, authVars, browserVars>>

\* update, first step: findIndex; the call returns null if nothing matches.
UpdateFind(r) ==
    /\ MayRun(r)
    /\ calls[r].op = "update" /\ calls[r].pc = "pending"
    /\ LET itemIndex == findIndex(items, calls[r].id)
       IN IF itemIndex = 0
          THEN /\ calls' = [calls EXCEPT ![r] = Idle]
               /\ running' = NoneRunning
          ELSE /\ calls' = [calls EXCEPT ![r].pc = "found", ![r].seen = itemIndex]
               /\ running' = r
    /\ UNCHANGED <<itemVars, gateVars, authVars, browserVars>>

\* update, second step: the merged entity replaces the one at the index
\* found.  The index is always within the array when the call was not
\* interrupted.
UpdateWrite(r) ==
    /\ MayRun(r)
    /\ calls[r].op = "update" /\ calls[r].pc = "found"
    /\ items' = IF calls[r].seen \in DOMAIN items
                THEN [items EXCEPT ![calls[r].seen] = Spread(items[calls[r].seen], calls[r].arg)]
                ELSE items
    /\ calls' = [calls EXCEPT ![r] = Idle]
    /\ running' = NoneRunning
    /\ UNCHANGED <<pre, request, last, response, assigned, gateVars, authVars, browserVars>>

\* remove, first step: the initial length is read.
RemoveRead(r) ==
    /\ MayRun(r)
    /\ calls[r].op = "remove" /\ calls[r].pc = "pending"
    /\ calls' = [calls EXCEPT ![r].pc = "measured", ![r].seen = Len(items)]
    /\ running' = r
    /\ UNCHANGED <<itemVars, gateVars, authVars, browserVars>>

\* remove, second step: the array is replaced by the filtered one.
RemoveFilter(r) ==
    /\ MayRun(r)
    /\ calls[r].op = "remove" /\ calls[r].pc = "measured"
    /\ items' = SelectSeq(items, LAMBDA item : ~StrictEquals(item.id, calls[r].id))
    /\ calls' = [calls EXCEPT ![r] = Idle]
    /\ running' = NoneRunning
    /\ UNCHANGED <<pre, request, last, response, assigned, gateVars, authVars, browserVars>>

\* A step of the call of request r.
StepOf(r) ==
    \/ CreateRead(r) \/ CreatePush(r)
    \/ UpdateFind(r) \/ UpdateWrite(r)
    \/ RemoveRead(r) \/ RemoveFilter(r)

(***************************************************************************)
(* The books page (script.js).  A fetch that is awaited stays in inflight  *)
(* until its promise settles; what follows the await runs then, after      *)
(* whatever the user did in between.  The server acts on a request when it *)
(* answers it.                                                             *)
(***************************************************************************)
ObjectId(n) == Str(<<"oid", n>>)
BookIds == { ObjectId(n) : n \in 1..MaxBooks }
TitleOf(id) == Str(<<"title of">> \o id.text)
Typed == Str(<<"typed">>)
Blank == Str(<<>>)

\* if (v) of JavaScript.
Truthy(v) == v \notin {Null, Undefined, Blank}

Fetch(method, id, body) == [method |-> method, id |-> id, body |-> body]
NoneSent == [method |-> "none", id |-> Null, body |-> Blank, afterEdit |-> Null]
NoAction == [kind |-> "none", id |-> Null]

\* The awaited fetches without the one at position i.
Settle(i) == SubSeq(inflight, 1, i - 1) \o SubSeq(inflight, i + 1, Len(inflight))

\* loadBooks() called where the fetch at position i was awaited.
ThenLoadBooks(i) == [inflight EXCEPT ![i] = Fetch("GET", Null, Blank)]

PostsInFlight == Cardinality({ i \in DOMAIN inflight : inflight[i].method = "POST" })

\* loadBooks, after its awaits: the list is rendered from the answer.
LoadBooksRendered(i) ==
    /\ i \in DOMAIN inflight /\ inflight[i].method = "GET"
    /\ listed' = books
    /\ inflight' = Settle(i)
    /\ UNCHANGED <<editingId, titleInput, books, minted, lastAction, sent>>
    /\ UNCHANGED <<itemVars, gateVars, authVars, raceVars>>

\* The user edits the inputs.
TypeInForm ==
    /\ titleInput' = Typed
    /\ lastAction' = [kind |-> "type", id |-> Null]
    /\ UNCHANGED <<editingId, inflight, listed, books, minted, sent>>
    /\ UNCHANGED <<itemVars, gateVars, authVars, raceVars>>

\* The user clicks Edit of a listed book: editBook(id, title, author, year).
editBook(id) ==
    /\ id \in listed
    /\ titleInput' = TitleOf(id)
    /\ editingId' = id
    /\ lastAction' = [kind |-> "edit", id |-> id]
    /\ UNCHANGED <<inflight, listed, books, minted, sent>>
    /\ UNCHANGED <<itemVars, gateVars, authVars, raceVars>>

\* The submit handler up to its await: a PUT to the book being edited if
\* editingId is set, a POST otherwise.
Submit ==
    /\ Len(inflight) < MaxInflight
    /\ LET book == titleInput
           request_ == IF Truthy(editingId)
                       THEN Fetch("PUT", editingId, book)
                       ELSE Fetch("POST", Null, book)
       IN /\ request_.method = "POST" => minted + PostsInFlight < MaxBooks
          /\ inflight' = Append(inflight, request_)
          /\ sent' = [method |-> request_.method, id |-> request_.id, body |-> book,
                      afterEdit |-> IF lastAction.kind = "edit" THEN lastAction.id ELSE Null]
    /\ lastAction' = [kind |-> "submit", id |-> Null]
    /\ UNCHANGED <<editingId, titleInput, listed, books, minted>>
    /\ UNCHANGED <<itemVars, gateVars, authVars, raceVars>>

\* The submit handler after the awaited PUT: editingId = null; form.reset();
\* loadBooks().
SubmitPutAnswered(i) ==
    /\ i \in DOMAIN inflight /\ inflight[i].method = "PUT"
    /\ editingId' = Null
    /\ titleInput' = Blank
    /\ inflight' = ThenLoadBooks(i)
    /\ UNCHANGED <<listed, books, minted, lastAction, sent>>
    /\ UNCHANGED <<itemVars, gateVars, authVars, raceVars>>

\* The submit handler after the awaited POST: form.reset(); loadBooks().
\* The server has stored the new book under a new identifier.
SubmitPostAnswered(i) ==
    /\ i \in DOMAIN inflight /\ inflight[i].method = "POST"
    /\ minted' = minted + 1
    /\ books' = books \cup {ObjectId(minted + 1)}
    /\ titleInput' = Blank
    /\ inflight' = ThenLoadBooks(i)
    /\ UNCHANGED <<editingId, listed, lastAction, sent>>
    /\ UNCHANGED <<itemVars, gateVars, authVars, raceVars>>

\* The user clicks Delete of a listed book: deleteBook(id) up to its await.
deleteBook(id) ==
    /\ id \in listed
    /\ Len(inflight) < MaxInflight
    /\ inflight' = Append(inflight, Fetch("DELETE", id, Blank))
    /\ UNCHANGED <<editingId, titleInput, listed, books, minted, lastAction, sent>>
    /\ UNCHANGED <<itemVars, gateVars, authVars, raceVars>>

\* deleteBook after its await: loadBooks().  The server has deleted the book.
DeleteAnswered(i) ==
    /\ i \in DOMAIN inflight /\ inflight[i].method = "DELETE"
    /\ books' = books \ {inflight[i].id}
    /\ inflight' = ThenLoadBooks(i)
    /\ UNCHANGED <<editingId, titleInput, listed, minted, lastAction, sent>>
    /\ UNCHANGED <<itemVars, gateVars, authVars, raceVars>>

\* A fetch rejects (the server is not reachable): the awaiting function
\* ends there and the request had no effect.
FetchRejected(i) ==
    /\ i \in DOMAIN inflight
    /\ inflight' = Settle(i)
    /\ UNCHANGED <<editingId, titleInput, listed, books, minted, lastAction, sent>>
    /\ UNCHANGED <<itemVars, gateVars, authVars, raceVars>>

(***************************************************************************)
(* Initial state and specifications.                                       *)
(***************************************************************************)
Init ==
    /\ items = <<>>
    /\ pre = <<>>
    /\ request = NoRequest
    /\ last = NoCall
    /\ response = NoResponse
    /\ assigned = {}
    /\ userReq = EmptyObject
    /\ userResp = NoResponse
    /\ handled = NotInvoked
    /\ users = <<>>
    /\ authLast = [op |-> "none"]
    /\ creds = {}
    /\ now = 0
    /\ held = NoToken
    /\ calls = [r \in Requests |-> Idle]
    /\ running = NoneRunning
    /\ editingId = Null
    /\ titleInput = Blank
    /\ inflight = <<Fetch("GET", Null, Blank)>>
    /\ listed = {}
    /\ books = {ObjectId(1)}
    /\ minted = 1
    /\ lastAction = NoAction
    /\ sent = NoneSent

Next ==
    \/ \E body \in ItemBodies : PostAddItem(body)
    \/ GetAll
    \/ \E param \in IdParams : GetItem(param)
    \/ \E param \in IdParams, body \in PartialBodies : PutUpdateItem(param, body)
    \/ \E param \in IdParams : DeleteItem(param)

Spec == Init /\ [][Next]_vars

\* The DTO guide's application.
NextGate == \E body \in UserBodies : PostUsers(body)

SpecGate == Init /\ [][NextGate]_vars

\* The JWT guide's application.
NextAuth ==
    \/ \E username \in Usernames, password \in Passwords, salt \in Salts :
          Register(username, password, salt)
    \/ \E username \in Usernames, password \in Passwords : Login(username, password)

SpecAuth == Init /\ [][NextAuth]_vars

\* The JWT guide's application with its clock and the protected route, for
\* two users.
NextJwt ==
    \/ \E username \in {"ram", "sita"} : Register(username, "1234", "salt1")
    \/ \E username \in {"ram", "sita"}, password \in Passwords : Login(username, password)
    \/ \E token \in Presentable(held) : GetProfile(token)
    \/ Tick

SpecJwt == Init /\ [][NextJwt]_vars

\* The items application with requests in flight at the same time.
NextRace ==
    \/ \E r \in Requests, body \in RaceBodies : Arrive(r, "create", 0, body)
    \/ \E r \in Requests, id \in RaceIds, body \in RacePartials : Arrive(r, "update", id, body)
    \/ \E r \in Requests, id \in RaceIds : Arrive(r, "remove", id, EmptyObject)
    \/ \E r \in Requests : CreateRead(r)
    \/ \E r \in Requests : CreatePush(r)
    \/ \E r \in Requests : UpdateFind(r)
    \/ \E r \in Requests : UpdateWrite(r)
    \/ \E r \in Requests : RemoveRead(r)
    \/ \E r \in Requests : RemoveFilter(r)

SpecRace == Init /\ [][NextRace]_vars

\* The books page in the browser, with its server.
NextBrowser ==
    \/ \E i \in 1..MaxInflight : LoadBooksRendered(i)
    \/ TypeInForm
    \/ \E id \in BookIds : editBook(id)
    \/ Submit
    \/ \E i \in 1..MaxInflight : SubmitPutAnswered(i)
    \/ \E i \in 1..MaxInflight : SubmitPostAnswered(i)
    \/ \E id \in BookIds : deleteBook(id)
    \/ \E i \in 1..MaxInflight : DeleteAnswered(i)
    \/ \E i \in 1..MaxInflight : FetchRejected(i)

SpecBrowser == Init /\ [][NextBrowser]_vars

\* The items application when only creations and deletions are requested.
NextCR ==
    \/ \E body \in ItemBodies : PostAddItem(body)
    \/ \E param \in IdParams : DeleteItem(param)

SpecCR == Init /\ [][NextCR]_vars

(***************************************************************************)
(* Properties of ItemsService.                                             *)
(***************************************************************************)
\* The positions of its that hold an entity whose identifier is id.
Positions(its, id) == {i \in 1..Len(its) : StrictEquals(its[i].id, id)}

\* The k-th smallest element of the set of positions S.
Kth(S, k) == CHOOSE i \in S : Cardinality({j \in S : j < i}) = k - 1

\* e is the record x with the identifier id: the fields of x other than id,
\* as x has them, and id.
IsRecordWithId(e, x, id) ==
    /\ e # Undefined
    /\ DOMAIN e = DOMAIN x \cup {"id"}
    /\ e.id = id
    /\ \A f \in DOMAIN x \ {"id"} : e[f] = x[f]

\* C1: right after create(X) has assigned an identifier, findOne of that
\* identifier returns X with that identifier, the entity just created.
C1_CreateThenFindOne ==
    last.op = "create" => IsRecordWithId(findOne(items, last.ret.id), last.arg, last.ret.id)

C3_UpdateMergesInPlace ==
    (last.op = "update" /\ Positions(pre, last.id) # {}) =>
        LET i == Kth(Positions(pre, last.id), 1)
        IN /\ Len(items) = Len(pre)
           /\ \A j \in 1..Len(pre) : j # i => items[j] = pre[j]
           /\ DOMAIN items[i] = DOMAIN pre[i] \cup DOMAIN last.arg
           /\ \A f \in DOMAIN last.arg : items[i][f] = last.arg[f]
           /\ \A f \in DOMAIN pre[i] \ DOMAIN last.arg : items[i][f] = pre[i][f]
           /\ last.ret = items[i]

\* update has overwritten the name of the second of two entities and kept
\* its description.
C3_Witness ==
    /\ last.op = "update"
    /\ Len(pre) = 2
    /\ Positions(pre, last.id) = {2}
    /\ DOMAIN last.arg = {"name"}
    /\ "description" \in DOMAIN pre[2]
    /\ "name" \in DOMAIN pre[2]
    /\ pre[2].name # last.arg.name
    /\ items[2].name = last.arg.name

\* C4: create(record) gives the new entity the identifier (number of
\* entities) + 1, appends it last, returns it, leaves the entities stored
\* before as they were, and the collection grows by exactly one.
C4_CreateAppendsWithSizePlusOne ==
    last.op = "create" =>
        /\ Len(items) = Len(pre) + 1
        /\ \A j \in 1..Len(pre) : items[j] = pre[j]
        /\ IsRecordWithId(items[Len(items)], last.arg, Len(pre) + 1)
        /\ last.ret = items[Len(items)]

\* create has stored a record that came with an identifier of its own, in a
\* collection that was not empty.
C4_Witness ==
    /\ last.op = "create"
    /\ Len(pre) = 1
    /\ "id" \in DOMAIN last.arg
    /\ last.arg.id # last.ret.id

\* C5: with creations and deletions alone, a create that runs while an
\* entity already carries the identifier (size + 1) assigns an identifier
\* that create had assigned before, and the earlier entity and the new one
\* then carry the same identifier in the collection.
C5_IdentifierCollision ==
    (last.op = "create" /\ Positions(pre, Len(pre) + 1) # {}) =>
        /\ last.reused
        /\ last.ret.id \in assigned
        /\ \E i \in 1..Len(pre) :
              /\ items[i] = pre[i]
              /\ items[i].id = items[Len(items)].id
              /\ items[Len(items)] = last.ret

\* After creations and deletions alone, create has assigned an identifier a
\* second time, and two different entities of the collection carry it.
C5_Witness ==
    /\ last.op = "create"
    /\ last.reused
    /\ \E i, j \in 1..Len(items) :
          /\ i < j
          /\ items[i].id = items[j].id
          /\ items[i] # items[j]

\* C6: for an identifier no entity has, findOne returns undefined, update
\* returns null and remove returns false, and the collection stays as it was.
C6_MissingIdIsAbsence ==
    (last.op \in {"findOne", "update", "remove"} /\ Positions(pre, last.id) = {}) =>
        /\ items = pre
        /\ last.op = "findOne" => last.ret = Undefined
        /\ last.op = "update" => last.ret = Null
        /\ last.op = "remove" => last.ret = FALSE

\* update was called with fields to write, for an identifier that none of
\* the stored entities has.
C6_Witness ==
    /\ last.op = "update"
    /\ Len(pre) > 0
    /\ Positions(pre, last.id) = {}
    /\ DOMAIN last.arg # {}
    /\ last.ret = Null

(***************************************************************************)
(* Properties of the validation gate.                                      *)
(***************************************************************************)
\* C7: a POST /api/add-item whose body violates CreateItemDto is answered
\* with a 400 and never reaches ItemsService.create: the collection and the
\* identifiers stay as they were.
C7_InvalidItemBodyRejected ==
    (request.route = "POST /api/add-item"
        /\ ConstraintErrors(CreateItemDto, request.body) # <<>>) =>
        /\ response.status = 400
        /\ last.op # "create"
        /\ items = pre

\* The declared constraints of CreateUserDto that the record fails, as
\* positions of the DTO.
Failing(rec) == {i \in 1..Len(CreateUserDto) : ~Satisfies(CreateUserDto[i], rec)}

Extraneous(rec) == DOMAIN rec \ Declared(CreateUserDto)

Requested == userResp.status # 0

\* C8 as stated: every record whose declared fields satisfy their
\* constraints passes the gate with its undeclared fields removed and no
\* violation, whether or not it carries undeclared fields.
C8_ValidRecordMinusExtraneous ==
    (Requested /\ Failing(userReq) = {}) =>
        /\ userResp.status # 400
        /\ handled.invoked
        /\ handled.dto = [f \in DOMAIN userReq \cap Declared(CreateUserDto) |-> userReq[f]]

\* C8 as amended: a record whose declared fields satisfy their constraints
\* and that carries no undeclared field reaches the handler unchanged, with
\* no violation; one that carries undeclared fields is rejected with a 400
\* that names each of them, and the handler is not invoked.
C8_ValidRecordGate ==
    (Requested /\ Failing(userReq) = {}) =>
        IF Extraneous(userReq) = {}
        THEN /\ userResp.status = 201
             /\ handled.invoked
             /\ handled.dto = userReq
        ELSE /\ userResp.status = 400
             /\ ~handled.invoked
             /\ Len(userResp.body.message) = Cardinality(Extraneous(userReq))
             /\ \A p \in Extraneous(userReq) :
                   \E k \in 1..Len(userResp.body.message) :
                       userResp.body.message[k] = WhitelistMessage(p)

\* A record with a name, a well-formed e-mail address and a password of
\* exactly six characters, and nothing else, has reached the handler.
C8_Witness ==
    /\ Requested
    /\ DOMAIN userReq = {"name", "email", "password"}
    /\ Failing(userReq) = {}
    /\ Len(userReq.password.text) = MinPasswordLength
    /\ handled.invoked
    /\ handled.dto = userReq

C10_RegisterKeepsUsernamesUnique ==
    /\ \A i, j \in 1..Len(users) : i # j => users[i].username # users[j].username
    /\ (authLast.op = "register"
          /\ \E i \in 1..Len(authLast.before) :
                authLast.before[i].username = authLast.username) =>
          /\ ~authLast.ok
          /\ authLast.status # 201
          /\ users = authLast.before

\* A second registration of a stored username, with another password, has
\* failed while another user is stored as well.
C10_Witness ==
    /\ authLast.op = "register"
    /\ ~authLast.ok
    /\ Len(users) = 2
    /\ users = authLast.before
    /\ \E i \in 1..Len(users) :
          /\ users[i].username = authLast.username
          /\ users[i].password # bcryptHash(authLast.password, SaltRounds, users[i].password.salt)

\* The raw passwords the username was registered with (at most one).
RegisteredWith(username) == {c[2] : c \in {d \in creds : d[1] = username}}

\* C11: after a successful register(u, p), validateUser(u, p) returns the
\* stored record of u without the password field, validateUser(u, q) with
\* another q returns null, and validateUser of a username that was never
\* registered returns null.
C11_ValidateUser ==
    authLast.op = "login" =>
        IF authLast.password \in RegisteredWith(authLast.username)
        THEN \E i \in 1..Len(users) :
                /\ users[i].username = authLast.username
                /\ DOMAIN authLast.validated = DOMAIN users[i] \ {"password"}
                /\ \A f \in DOMAIN authLast.validated : authLast.validated[f] = users[i][f]
        ELSE authLast.validated = Null

\* validateUser has accepted the password of the second of two registered
\* users and returned the record without the password.
C11_Witness ==
    /\ authLast.op = "login"
    /\ Len(users) = 2
    /\ users[2].username = authLast.username
    /\ authLast.password \in RegisteredWith(authLast.username)
    /\ authLast.validated # Null
    /\ "password" \notin DOMAIN authLast.validated
    /\ authLast.validated.username = authLast.username

\* C12: the response to a successful POST /auth/register carries no secret
\* field: no password field, raw or hashed.
C12_RegisterResponseHasNoSecret ==
    (authLast.op = "register" /\ authLast.ok) => "password" \notin DOMAIN authLast.value

Genuine(token) == ~token.malformed /\ token.signature = Hmac(SignSecret, token.payload)

\* C14: a token issued by login carries the subject id and the username of
\* the user and expires one hour after it was issued; presented before
\* that, it verifies and yields these claims; presented once the hour has
\* elapsed it fails, and so does every token whose signature the server's
\* key did not produce.
C14_TokenRoundTrip ==
    /\ (authLast.op = "login" /\ authLast.ok) =>
          LET t == authLast.value.access_token
          IN /\ held = t
             /\ Genuine(t)
             /\ t.payload.username = authLast.username
             /\ \E i \in 1..Len(users) :
                   users[i].username = authLast.username /\ t.payload.sub = users[i]._id
             /\ t.payload.iat = authLast.at
             /\ t.payload.exp = authLast.at + 3600
    /\ authLast.op = "profile" =>
          IF Genuine(authLast.token)
          THEN IF authLast.at < authLast.token.payload.iat + 3600
               THEN /\ authLast.status = 200
                    /\ authLast.value.userId = authLast.token.payload.sub
                    /\ authLast.value.username = authLast.token.payload.username
               ELSE authLast.status = 401
          ELSE authLast.status = 401

\* The token of a login has been presented half an hour after it was issued
\* and has yielded the claims it was issued for.
C14_Witness ==
    /\ authLast.op = "profile"
    /\ authLast.token = held
    /\ Genuine(held)
    /\ authLast.at = held.payload.iat + 1800
    /\ authLast.status = 200
    /\ authLast.value = [userId |-> held.payload.sub, username |-> held.payload.username]

\* C15: the handler of GET /auth/profile runs only for a request whose token
\* passed the signature and expiry verification, and then returns the claims
\* of that token; without a token, with a malformed, a tampered or an
\* expired token the request is answered 401 and the handler is not reached.
C15_ProfileIsGuarded ==
    authLast.op = "profile" =>
        LET t == authLast.token
            verified == Genuine(t) /\ authLast.at < t.payload.exp
        IN /\ authLast.handlerInvoked <=> verified
           /\ authLast.handlerInvoked =>
                 /\ authLast.status = 200
                 /\ authLast.value = [userId |-> t.payload.sub, username |-> t.payload.username]
           /\ ~authLast.handlerInvoked =>
                 /\ authLast.status = 401
                 /\ authLast.value = Unauthorized

\* A token whose username claim was changed after it was issued has been
\* rejected before its expiry.
C15_Witness ==
    /\ authLast.op = "profile"
    /\ Genuine(held)
    /\ authLast.token = Tampered(held)
    /\ authLast.token # held
    /\ authLast.at < held.payload.exp
    /\ ~authLast.handlerInvoked
    /\ authLast.status = 401

(***************************************************************************)
(* Properties of requests in flight at the same time.                      *)
(***************************************************************************)
\* The call of r has taken its first step and not yet its second.
MidCall(r) == calls[r].pc \in {"sized", "found", "measured"}

\* The call of r waits to start and could start on the collection as it is.
Startable(r) ==
    /\ calls[r].pc = "pending"
    /\ calls[r].op = "create" => Len(items) < MaxItems

\* C16 as stated: the steps of one call can be separated by steps of another
\* request's call: while a call is between its two steps, a waiting call of
\* another request can take a step.
C16_CallsInterleave ==
    \A r, q \in Requests :
        (r # q /\ MidCall(r) /\ Startable(q)) => ENABLED StepOf(q)

\* C16 as amended: requests in flight at the same time are served one call
\* at a time.  While a call is between its steps it is the only one, no
\* step of another request is possible, and what it has read still holds:
\* create appends at the size it saw, update writes at the index findIndex
\* gives, remove filters the array whose length it measured.
C16_CallsRunToCompletion ==
    \A r \in Requests :
        MidCall(r) =>
            /\ running = r
            /\ \A q \in Requests : q # r => ~MidCall(q) /\ ~ENABLED StepOf(q)
            /\ calls[r].pc = "sized" => calls[r].seen = Len(items)
            /\ calls[r].pc = "found" => calls[r].seen = findIndex(items, calls[r].id)
            /\ calls[r].pc = "measured" => calls[r].seen = Len(items)

\* A create has read the size of a collection that is not empty while a
\* create of another request waits.
C16_Witness ==
    \E r, q \in Requests :
        /\ r # q
        /\ calls[r].op = "create" /\ calls[r].pc = "sized"
        /\ calls[q].op = "create" /\ calls[q].pc = "pending"
        /\ calls[r].seen = 1
        /\ Len(items) = 1

(***************************************************************************)
(* Properties of the books page.                                           *)
(***************************************************************************)
\* C17: an edit selection is never lost: a submit whose preceding action of
\* the user on the form was editBook(id) issues a PUT to /books/id with the
\* values of the form, not a POST, whatever earlier submits were still
\* awaiting their fetch.
C17_EditSelectionNeverLost ==
    (sent.method # "none" /\ sent.afterEdit # Null) =>
        /\ sent.method = "PUT"
        /\ sent.id = sent.afterEdit

(***************************************************************************)
(* Identifiers under update.                                               *)
(***************************************************************************)
\* How many entities of the sequence carry the identifier v.
Occurrences(seq, v) == Cardinality({ k \in DOMAIN seq : seq[k].id = v })

IdentifiersOf(seq) == { seq[k].id : k \in DOMAIN seq }

\* C18: update never changes which identifiers are present: whatever the
\* partial carries, an id field included, the multiset of identifiers after
\* update(id, partial) is the one before it, and findOne(id) still gives the
\* entity at the position where it gave one before.
C18_UpdateKeepsIdentifiers ==
    last.op = "update" =>
        /\ \A v \in IdentifiersOf(pre) \cup IdentifiersOf(items) :
               Occurrences(items, v) = Occurrences(pre, v)
        /\ findIndex(items, last.id) = findIndex(pre, last.id)

====
